---- MODULE Spec2Model ----
(***************************************************************************)
(* TempusCache: a TTL + LRU in-memory cache (package tempuscache).         *)
(*                                                                         *)
(* The engine state is the struct Cache of src/cache.go: the index         *)
(* c.data (key -> *list.Element), the recency list c.lru, the capacity     *)
(* c.maxEntries, the sweep interval c.interval, the stop channel and the   *)
(* statistics.  The index holds handles to list elements, so the index     *)
(* and the list can disagree when the code lets them.                      *)
(* Every public operation takes c.mu for its whole body, hence one action  *)
(* per operation.  The goroutines of TestConcurrentAccess take the lock    *)
(* and run the body of a call as two steps.                                *)
(***************************************************************************)
EXTENDS Integers, Sequences, FiniteSets, TLC

\* ------------------------------------------------------------------ bounds
NumKeys == 3
NumVals == 2
MaxTTL == 1
MaxTime == 2
MaxNodes == 2
MaxInterval == 1
MaxGets == 1
MaxEvictions == 1
NumCallers == 2

Keys == 1..NumKeys
Values == 1..NumVals
TTLs == 0..MaxTTL
Capacities == 0..MaxNodes
Intervals == (0 - 1)..MaxInterval
Callers == 1..NumCallers
\* a ttl that does not elapse before the clock stops
LongTTL == MaxTime + 1
ConcTTLs == TTLs \cup {LongTTL}

NoElem == 0
Dangling == 0 - 1
NoValue == 0

VARIABLES
    data,        \* c.data: key -> element, NoElem when the key is not in the map
    lru,         \* c.lru: the *Item of each element, front (most recent) first
    maxEntries,  \* c.maxEntries
    interval,    \* c.interval
    stopChan,    \* c.stopChan: "open" or "closed"
    janitor,     \* the goroutine of startJanitor: "disabled", "running", "exited"
    ticker,      \* the janitor's time.Ticker: "none", "active", "stopped"
    panicked,    \* a close of the closed stopChan has panicked
    stops,       \* history: the calls of Stop so far
    stats,       \* c.stats
    now,         \* time.Now()
    last,        \* history: per key, the most recent write (Set or Delete)
    used,        \* history: the keys of the index, most recently set or read first
    scen,        \* history: the calls since New, while they are inserts of new keys
    mu,          \* c.mu: the goroutine that holds the lock, 0 when it is free
    pc,          \* per goroutine of TestConcurrentAccess: where it is
    got,         \* per goroutine of TestConcurrentAccess: what its Get returned
    readers,     \* c.mu: the goroutines that hold the read lock
    snap,        \* history: the index, list and counters when c.mu was locked
    sw,          \* deleteExpired in the janitor: where its loop is
    ret          \* per goroutine in Stats: c.stats as read under the read lock

cfgvars == <<maxEntries, interval>>
janvars == <<stopChan, janitor, ticker, panicked, stops>>
finevars == <<readers, snap, sw, ret>>
convars == <<mu, pc, got, finevars>>
vars == <<data, lru, maxEntries, interval, stopChan, janitor, ticker, panicked,
          stops, stats, now, last, used, scen, mu, pc, got, readers, snap, sw, ret>>
hist == <<last, used, scen>>

\* ------------------------------------------------------- container/list
\* A *list.Element is named by its position in the list (1 = front); the
\* three list operations rename the handles held in c.data accordingly.
\* A handle to an element that has left the list becomes Dangling.
DropAt(l, p) == SubSeq(l, 1, p - 1) \o SubSeq(l, p + 1, Len(l))

\* l.Remove(e)
ListRemove(st, p) ==
    IF p \in 1..Len(st.lru)
    THEN [st EXCEPT !.lru = DropAt(st.lru, p),
                    !.data = [k \in Keys |->
                                IF st.data[k] = p THEN Dangling
                                ELSE IF st.data[k] > p THEN st.data[k] - 1
                                ELSE st.data[k]]]
    ELSE st

\* an element that stays where it is
ListStay(st, p) == st

\* l.MoveToFront(e)
ListMoveToFront(st, p) ==
    IF p \in 1..Len(st.lru)
    THEN [st EXCEPT !.lru = <<st.lru[p]>> \o DropAt(st.lru, p),
                    !.data = [k \in Keys |->
                                IF st.data[k] = p THEN 1
                                ELSE IF st.data[k] \in 1..(p - 1) THEN st.data[k] + 1
                                ELSE st.data[k]]]
    ELSE st

\* l.PushFront(v): the new element is at position 1
ListPushFront(st, item) ==
    [st EXCEPT !.lru = <<item>> \o st.lru,
               !.data = [k \in Keys |->
                           IF st.data[k] >= 1 THEN st.data[k] + 1 ELSE st.data[k]]]

\* l.Back()
ListBack(st) == Len(st.lru)

\* ---------------------------------------------------------------- helpers
Index == {k \in Keys : data[k] # NoElem}

ListKeys == {lru[i].key : i \in 1..Len(lru)}

Cur == [data |-> data, lru |-> lru, stats |-> stats]

Becomes(st) ==
    /\ data' = st.data
    /\ lru' = st.lru
    /\ stats' = st.stats

\* ------------------------------------------------------------------ item.go
\* a deadline taken one instant too late
ExpiredLate(item) == IF item.expiration = 0 THEN FALSE ELSE now > item.expiration + 1

Expired(item) == IF item.expiration = 0 THEN FALSE ELSE now > item.expiration

\* -------------------------------------------------------------- eviction.go
\* an element unlinked and left in c.data
removeElementUnlinked(st, e) == ListRemove(st, e)

removeElement(st, e) ==
    LET item == st.lru[e]
        st1 == ListRemove(st, e)
    IN [st1 EXCEPT !.data[item.key] = NoElem]

\* the front of the list taken for the back
evictNewest(st) ==
    IF Len(st.lru) # 0
    THEN [removeElement(st, 1) EXCEPT !.stats.Evictions = @ + 1]
    ELSE st

\* an eviction that prefers the expired element nearest the back
evictExpiredFirst(st) ==
    LET ex == {i \in 1..Len(st.lru) : Expired(st.lru[i])}
        elem == IF ex # {} THEN CHOOSE i \in ex : \A j \in ex : j <= i ELSE ListBack(st)
    IN IF elem # NoElem
       THEN [removeElement(st, elem) EXCEPT !.stats.Evictions = @ + 1]
       ELSE st

evictOldest(st) ==
    LET elem == ListBack(st) IN
    IF elem # NoElem
    THEN [removeElement(st, elem) EXCEPT !.stats.Evictions = @ + 1]
    ELSE st

\* ----------------------------------------------------------------- cache.go
\* the value of a key found in c.data left as it was
SetFoundStale(st, key, value, ttl) ==
    LET elem == st.data[key]
        st2 == IF ttl > 0 THEN [st EXCEPT !.lru[elem].expiration = now + ttl] ELSE st
    IN ListMoveToFront(st2, elem)

\* an update without ttl that makes the entry never expire
SetFoundClears(st, key, value, ttl) ==
    LET elem == st.data[key]
        st1 == [st EXCEPT !.lru[elem].value = value]
        st2 == [st1 EXCEPT !.lru[elem].expiration = IF ttl > 0 THEN now + ttl ELSE 0]
    IN ListMoveToFront(st2, elem)

\* Set, the branch of a key found in c.data
SetFound(st, key, value, ttl) ==
    LET elem == st.data[key]
        st1 == [st EXCEPT !.lru[elem].value = value]
        st2 == IF ttl > 0 THEN [st1 EXCEPT !.lru[elem].expiration = now + ttl] ELSE st1
    IN ListMoveToFront(st2, elem)

\* a negative maxEntries taken for a bound
SetNewNonZero(st, key, value, ttl) ==
    LET st1 == IF maxEntries # 0 /\ Len(st.lru) >= maxEntries THEN evictOldest(st) ELSE st
        exp == IF ttl > 0 THEN now + ttl ELSE 0
        item == [key |-> key, value |-> value, expiration |-> exp]
        st2 == ListPushFront(st1, item)
    IN [st2 EXCEPT !.data[key] = 1]

\* the capacity test off by one
SetNewOver(st, key, value, ttl) ==
    LET st1 == IF maxEntries > 0 /\ Len(st.lru) > maxEntries THEN evictOldest(st) ELSE st
        exp == IF ttl > 0 THEN now + ttl ELSE 0
        item == [key |-> key, value |-> value, expiration |-> exp]
        st2 == ListPushFront(st1, item)
    IN [st2 EXCEPT !.data[key] = 1]

\* the new element pushed and not stored in c.data
SetNewUnindexed(st, key, value, ttl) ==
    LET st1 == IF maxEntries > 0 /\ Len(st.lru) >= maxEntries THEN evictOldest(st) ELSE st
        exp == IF ttl > 0 THEN now + ttl ELSE 0
        item == [key |-> key, value |-> value, expiration |-> exp]
    IN ListPushFront(st1, item)

\* Set, the branch of a key not in c.data
SetNew(st, key, value, ttl) ==
    LET st1 == IF maxEntries > 0 /\ Len(st.lru) >= maxEntries THEN evictOldest(st) ELSE st
        exp == IF ttl > 0 THEN now + ttl ELSE 0
        item == [key |-> key, value |-> value, expiration |-> exp]
        st2 == ListPushFront(st1, item)
    IN [st2 EXCEPT !.data[key] = 1]

\* a Set that never finds its key in c.data
SetBlind(st, key, value, ttl) == SetNew(st, key, value, ttl)

\* the capacity test made before the key is looked up
SetCapacityFirst(st, key, value, ttl) ==
    LET st0 == IF maxEntries > 0 /\ Len(st.lru) >= maxEntries THEN evictOldest(st) ELSE st
    IN IF st0.data[key] # NoElem
       THEN SetFound(st0, key, value, ttl)
       ELSE SetNew(st0, key, value, ttl)

SetResult(st, key, value, ttl) ==
    IF st.data[key] # NoElem
    THEN SetFound(st, key, value, ttl)
    ELSE SetNew(st, key, value, ttl)

\* a Get that removes an expired entry without counting the miss
GetExpiredUncounted(st, key) ==
    LET elem == st.data[key] IN
    IF elem = NoElem
    THEN [st |-> [st EXCEPT !.stats.Misses = @ + 1], value |-> NoValue, found |-> FALSE]
    ELSE IF Expired(st.lru[elem])
    THEN [st |-> removeElement(st, elem), value |-> NoValue, found |-> FALSE]
    ELSE [st |-> [ListMoveToFront(st, elem) EXCEPT !.stats.Hits = @ + 1],
          value |-> st.lru[elem].value, found |-> TRUE]

\* a Get that takes an expired key out of c.data and leaves its element linked
GetExpiredUnindexes(st, key) ==
    LET elem == st.data[key] IN
    IF elem = NoElem
    THEN [st |-> [st EXCEPT !.stats.Misses = @ + 1], value |-> NoValue, found |-> FALSE]
    ELSE IF Expired(st.lru[elem])
    THEN [st |-> [st EXCEPT !.data[key] = NoElem, !.stats.Misses = @ + 1],
          value |-> NoValue, found |-> FALSE]
    ELSE [st |-> [ListMoveToFront(st, elem) EXCEPT !.stats.Hits = @ + 1],
          value |-> st.lru[elem].value, found |-> TRUE]

\* a Get that counts the removal of an expired entry as an eviction
GetExpiredEvicts(st, key) ==
    LET elem == st.data[key] IN
    IF elem = NoElem
    THEN [st |-> [st EXCEPT !.stats.Misses = @ + 1], value |-> NoValue, found |-> FALSE]
    ELSE IF Expired(st.lru[elem])
    THEN [st |-> [removeElement(st, elem) EXCEPT !.stats.Misses = @ + 1,
                                                 !.stats.Evictions = @ + 1],
          value |-> NoValue, found |-> FALSE]
    ELSE [st |-> [ListMoveToFront(st, elem) EXCEPT !.stats.Hits = @ + 1],
          value |-> st.lru[elem].value, found |-> TRUE]

\* Get: the state it leaves and the pair it returns
GetResult(st, key) ==
    LET elem == st.data[key] IN
    IF elem = NoElem
    THEN [st |-> [st EXCEPT !.stats.Misses = @ + 1], value |-> NoValue, found |-> FALSE]
    ELSE IF Expired(st.lru[elem])
    THEN [st |-> [removeElement(st, elem) EXCEPT !.stats.Misses = @ + 1],
          value |-> NoValue, found |-> FALSE]
    ELSE [st |-> [ListMoveToFront(st, elem) EXCEPT !.stats.Hits = @ + 1],
          value |-> st.lru[elem].value, found |-> TRUE]

\* a Delete that looks the key up as Get does, and counts a miss
DeleteCounted(st, key) ==
    IF st.data[key] = NoElem
    THEN [st EXCEPT !.stats.Misses = @ + 1]
    ELSE [st EXCEPT !.data[key] = NoElem]

\* a Delete that leaves the map as it is
DeleteNothing(st, key) == st

DeleteResult(st, key) == [st EXCEPT !.data[key] = NoElem]

\* the loop of deleteExpired: elem runs from the back to the front, prev is
\* taken before the removal, so the positions before elem are not renamed
RECURSIVE sweepFrom(_, _)
sweepFrom(st, elem) ==
    IF elem = NoElem THEN st
    ELSE LET prev == elem - 1
             st1 == IF Expired(st.lru[elem]) THEN removeElement(st, elem) ELSE st
         IN sweepFrom(st1, prev)

\* a sweep that stops at the first element that has not expired
deleteExpiredTail(st) ==
    IF Len(st.lru) > 0 /\ Expired(st.lru[Len(st.lru)])
    THEN sweepFrom(st, ListBack(st))
    ELSE st

deleteExpired(st) == sweepFrom(st, ListBack(st))

\* ---------------------------------------------------------------- history
NoWrite == [kind |-> "none", value |-> NoValue, deadline |-> 0]
Deleted == [kind |-> "deleted", value |-> NoValue, deadline |-> 0]
\* the deadline a Set gives: now + ttl, or none (0); a Set with ttl <= 0 of a
\* present key that expires keeps that key's expiration (Kept)
Kept == 0 - 1
Written(key, value, ttl) ==
    [kind |-> "set", value |-> value,
     deadline |-> IF ttl > 0 THEN now + ttl
                  ELSE IF data[key] # NoElem /\ lru[data[key]].expiration # 0 THEN Kept
                  ELSE 0]

\* a write whose deadline has passed is forgotten once its key has left the index
Remembered == [k \in Keys |->
                 IF data'[k] = NoElem /\ last[k].deadline > 0 /\ now > last[k].deadline
                 THEN NoWrite ELSE last[k]]

\* the key of the element a step has evicted for capacity
Evicted == IF stats'.Evictions # stats.Evictions THEN {lru[Len(lru)].key} ELSE {}

Without(seq, k) == SelectSeq(seq, LAMBDA x : x # k)

\* the recency order, of the keys the step leaves in the index
Touch(k) == SelectSeq(<<k>> \o Without(used, k), LAMBDA x : data'[x] # NoElem)
Untouched == SelectSeq(used, LAMBDA x : data'[x] # NoElem)

ScenOff == [on |-> FALSE, keys |-> <<>>, read |-> FALSE]
ScenSet(key, ttl) ==
    IF /\ scen.on
       /\ ttl <= 0
       /\ \A i \in 1..Len(scen.keys) : scen.keys[i] # key
       /\ Len(scen.keys) <= maxEntries
    THEN [scen EXCEPT !.keys = Append(@, key)]
    ELSE ScenOff
ScenGet(key) ==
    IF /\ scen.on
       /\ ~scen.read
       /\ Len(scen.keys) = maxEntries
       /\ maxEntries >= 2
       /\ key = scen.keys[1]
    THEN [scen EXCEPT !.read = TRUE]
    ELSE ScenOff

\* ----------------------------------------------------------------- actions
\* a New that starts the janitor whatever the interval
NewJanitorAlways(capacities, intervals) ==
    /\ data = [k \in Keys |-> NoElem]
    /\ lru = <<>>
    /\ maxEntries \in capacities
    /\ interval \in intervals
    /\ stopChan = "open"
    /\ janitor = "running"
    /\ ticker = "active"
    /\ panicked = FALSE
    /\ stops = 0
    /\ stats = [Hits |-> 0, Misses |-> 0, Evictions |-> 0]
    /\ now = 0
    /\ last = [k \in Keys |-> NoWrite]
    /\ used = <<>>
    /\ scen = [on |-> TRUE, keys |-> <<>>, read |-> FALSE]
    /\ mu = 0

\* New(opts...): the options set maxEntries and interval, startJanitor starts
\* the goroutine when the interval is positive
New(capacities, intervals) ==
    /\ data = [k \in Keys |-> NoElem]
    /\ lru = <<>>
    /\ maxEntries \in capacities
    /\ interval \in intervals
    /\ stopChan = "open"
    /\ janitor = IF interval > 0 THEN "running" ELSE "disabled"
    /\ ticker = IF interval > 0 THEN "active" ELSE "none"
    /\ panicked = FALSE
    /\ stops = 0
    /\ stats = [Hits |-> 0, Misses |-> 0, Evictions |-> 0]
    /\ now = 0
    /\ last = [k \in Keys |-> NoWrite]
    /\ used = <<>>
    /\ scen = [on |-> TRUE, keys |-> <<>>, read |-> FALSE]
    /\ mu = 0

\* no goroutine of TestConcurrentAccess
NoGet == [value |-> NoValue, found |-> FALSE]
NoSnap == [data |-> [k \in Keys |-> NoElem], lru |-> <<>>,
           stats |-> [Hits |-> 0, Misses |-> 0, Evictions |-> 0]]
Idle == [at |-> "idle", elem |-> NoElem, key |-> 1]
NoStats == [Hits |-> 0, Misses |-> 0, Evictions |-> 0]

\* nobody holds the lock, the janitor is between two sweeps
Unlocked ==
    /\ readers = {}
    /\ snap = NoSnap
    /\ sw = Idle
    /\ ret = [i \in Callers |-> NoStats]

NoCallers ==
    /\ pc = [i \in Callers |-> [at |-> "off", key |-> 1, ttl |-> 0]]
    /\ got = [i \in Callers |-> NoGet]
    /\ Unlocked

\* the engine, with the janitor running: every capacity, a positive interval
Init == New(Capacities, 1..MaxInterval) /\ NoCallers

\* the janitor's life: every interval, one capacity
InitLife == New({1}, Intervals) /\ NoCallers

\* TestConcurrentAccess: a cache without janitor and NumCallers goroutines,
\* each about to Set its key and then to Get it
InitConc ==
    /\ New(Capacities, {0})
    /\ pc \in [Callers -> [at : {"start"}, key : Keys, ttl : ConcTTLs]]
    /\ got = [i \in Callers |-> NoGet]
    /\ Unlocked

\* the sweeps of a running janitor: a capacity of two
InitSweep == New({MaxNodes}, 1..MaxInterval) /\ NoCallers

\* callers about to call one operation each
Started ==
    /\ pc = [i \in Callers |-> [at |-> "start", key |-> 1, ttl |-> 0]]
    /\ got = [i \in Callers |-> NoGet]
    /\ Unlocked

\* a capacity of two and a running janitor
InitFine == New({MaxNodes}, 1..MaxInterval) /\ Started

\* a capacity of one, with and without janitor
InitLive == New({1}, 0..MaxInterval) /\ Started

\* no capacity: maxEntries left at zero, or set to a negative number
InitUnbounded == New({0 - 1, 0}, 1..MaxInterval) /\ NoCallers

\* the recency order alone: a capacity of three, no janitor
InitLRU == New({MaxNodes + 1}, {0}) /\ NoCallers

\* a Set that a stopped cache refuses
SetUnlessStopped(key, value, ttl) ==
    /\ ~panicked
    /\ stopChan = "open"
    /\ LET st1 == SetResult(Cur, key, value, ttl)
       IN /\ maxEntries <= 0 => Len(st1.lru) <= MaxNodes
          /\ st1.stats.Evictions <= MaxEvictions
          /\ Becomes(st1)
    /\ last' = [k \in Keys |-> IF k = key THEN Written(key, value, ttl)
                               ELSE IF k \in Evicted THEN NoWrite ELSE last[k]]
    /\ used' = Touch(key)
    /\ scen' = ScenSet(key, ttl)
    /\ UNCHANGED <<cfgvars, janvars, now, convars>>

Set(key, value, ttl) ==
    /\ ~panicked
    /\ LET st1 == SetResult(Cur, key, value, ttl)
       IN /\ maxEntries <= 0 => Len(st1.lru) <= MaxNodes
          /\ st1.stats.Evictions <= MaxEvictions
          /\ Becomes(st1)
    /\ last' = [k \in Keys |-> IF k = key THEN Written(key, value, ttl)
                               ELSE IF k \in Evicted THEN NoWrite ELSE last[k]]
    /\ used' = Touch(key)
    /\ scen' = ScenSet(key, ttl)
    /\ UNCHANGED <<cfgvars, janvars, now, convars>>

Get(key) ==
    /\ ~panicked
    /\ stats.Hits + stats.Misses < MaxGets
    /\ Becomes(GetResult(Cur, key).st)
    /\ used' = IF GetResult(Cur, key).found THEN Touch(key) ELSE Untouched
    /\ scen' = ScenGet(key)
    /\ last' = Remembered
    /\ UNCHANGED <<cfgvars, janvars, now, convars>>

Delete(key) ==
    /\ ~panicked
    /\ Becomes(DeleteResult(Cur, key))
    /\ last' = [last EXCEPT ![key] = IF key \in Index THEN Deleted ELSE NoWrite]
    /\ used' = Untouched
    /\ scen' = ScenOff
    /\ UNCHANGED <<cfgvars, janvars, now, convars>>

\* ------------------------------------------------------ janitor (cache.go)
\* case <-ticker.C
JanitorTick ==
    /\ ~panicked
    /\ janitor = "running"
    /\ Becomes(deleteExpired(Cur))
    /\ used' = Untouched
    /\ last' = Remembered
    /\ UNCHANGED <<cfgvars, janvars, now, scen, convars>>

\* the janitor returns without stopping its ticker
JanitorStopLeak ==
    /\ ~panicked
    /\ janitor = "running"
    /\ sw.at = "idle"
    /\ stopChan = "closed"
    /\ janitor' = "exited"
    /\ UNCHANGED <<data, lru, cfgvars, stopChan, ticker, panicked, stops, stats, now,
                    hist, convars>>

\* a janitor that takes the closed stopChan in the middle of a sweep
JanitorStopMidSweep ==
    /\ ~panicked
    /\ janitor = "running"
    /\ stopChan = "closed"
    /\ ticker' = "stopped"
    /\ janitor' = "exited"
    /\ UNCHANGED <<data, lru, cfgvars, stopChan, panicked, stops, stats, now, hist,
                    convars>>

\* case <-c.stopChan: the select is reached when deleteExpired has returned
JanitorStop ==
    /\ ~panicked
    /\ janitor = "running"
    /\ sw.at = "idle"
    /\ stopChan = "closed"
    /\ ticker' = "stopped"
    /\ janitor' = "exited"
    /\ UNCHANGED <<data, lru, cfgvars, stopChan, panicked, stops, stats, now, hist,
                    convars>>

\* a Stop guarded as by sync.Once: the second call is a no-op
StopOnce ==
    /\ ~panicked
    /\ stops' = stops + 1
    /\ stopChan' = "closed"
    /\ UNCHANGED <<data, lru, cfgvars, janitor, ticker, panicked, stats, now, hist,
                    convars>>

\* close(c.stopChan); closing the closed channel panics and the panic is not
\* recovered: the process ends, and its memory and goroutines with it
Stop ==
    /\ ~panicked
    /\ stops' = stops + 1
    /\ IF stopChan = "open"
       THEN /\ stopChan' = "closed"
            /\ UNCHANGED <<data, lru, cfgvars, janitor, ticker, panicked, stats,
                            now, hist, convars>>
       ELSE /\ panicked' = TRUE
            /\ data' = [k \in Keys |-> NoElem]
            /\ lru' = <<>>
            /\ stats' = [Hits |-> 0, Misses |-> 0, Evictions |-> 0]
            /\ now' = 0
            /\ janitor' = IF interval > 0 THEN "exited" ELSE "disabled"
            /\ ticker' = "none"
            /\ last' = [k \in Keys |-> NoWrite]
            /\ used' = <<>>
            /\ scen' = ScenOff
            /\ UNCHANGED <<cfgvars, stopChan, convars>>

\* ------------------------------------- goroutines of TestConcurrentAccess
\* c.mu.Lock() of Set
GoSetLock(i) ==
    /\ pc[i].at = "start"
    /\ mu = 0
    /\ mu' = i
    /\ pc' = [pc EXCEPT ![i].at = "inSet"]
    /\ UNCHANGED <<data, lru, cfgvars, janvars, stats, now, hist, got, finevars>>

\* cache.Set("key", i, ttl) under the lock, and the deferred Unlock
GoSet(i) ==
    /\ pc[i].at = "inSet"
    /\ mu = i
    /\ Becomes(SetResult(Cur, pc[i].key, i, pc[i].ttl))
    /\ last' = [k \in Keys |-> IF k = pc[i].key THEN Written(pc[i].key, i, pc[i].ttl)
                               ELSE IF k \in Evicted THEN NoWrite ELSE last[k]]
    /\ used' = Touch(pc[i].key)
    /\ scen' = ScenSet(pc[i].key, pc[i].ttl)
    /\ mu' = 0
    /\ pc' = [pc EXCEPT ![i].at = "afterSet"]
    /\ UNCHANGED <<cfgvars, janvars, now, got, finevars>>

\* c.mu.Lock() of Get
GoGetLock(i) ==
    /\ pc[i].at = "afterSet"
    /\ mu = 0
    /\ mu' = i
    /\ pc' = [pc EXCEPT ![i].at = "inGet"]
    /\ UNCHANGED <<data, lru, cfgvars, janvars, stats, now, hist, got, finevars>>

\* cache.Get("key") under the lock, and the deferred Unlock
GoGet(i) ==
    /\ pc[i].at = "inGet"
    /\ mu = i
    /\ LET r == GetResult(Cur, pc[i].key)
       IN /\ Becomes(r.st)
          /\ got' = [got EXCEPT ![i] = [value |-> r.value, found |-> r.found]]
          /\ used' = IF r.found THEN Touch(pc[i].key) ELSE Untouched
    /\ scen' = ScenGet(pc[i].key)
    /\ last' = Remembered
    /\ mu' = 0
    /\ pc' = [pc EXCEPT ![i].at = "done"]
    /\ UNCHANGED <<cfgvars, janvars, now, finevars>>

\* ------------------------------------------- the operations, step by step
\* Callers that call one operation each, and the janitor's sweeps.  A step is
\* the acquisition of c.mu, one update of the list or of the index, or the
\* release of c.mu; the clock is read at one instant of a critical section.
Janitor == NumCallers + 1

\* the main goroutine fills the cache before the others start
Setup(key, ttl) ==
    /\ \A i \in Callers : pc[i].at = "start"
    /\ mu = 0 /\ readers = {} /\ sw.at = "idle"
    /\ LET st1 == SetResult(Cur, key, 1, ttl)
       IN /\ Len(st1.lru) <= MaxNodes
          /\ st1.stats.Evictions <= MaxEvictions
          /\ Becomes(st1)
    /\ UNCHANGED <<cfgvars, janvars, now, hist, convars>>

SetupDelete(key) ==
    /\ \A i \in Callers : pc[i].at = "start"
    /\ mu = 0 /\ readers = {} /\ sw.at = "idle"
    /\ Becomes(DeleteResult(Cur, key))
    /\ UNCHANGED <<cfgvars, janvars, now, hist, convars>>

\* c.mu.Lock() as the first statement of Set, Get or Delete
Lock(i, op, key, ttl) ==
    /\ pc[i].at = "start"
    /\ mu = 0
    /\ readers = {}
    /\ mu' = i
    /\ pc' = [pc EXCEPT ![i] = [at |-> op, key |-> key, ttl |-> ttl]]
    /\ snap' = Cur
    /\ UNCHANGED <<data, lru, cfgvars, janvars, stats, now, hist, got, readers, sw, ret>>

\* a Get that takes the read lock, as Stats does
FGetRLock(i, key) ==
    /\ pc[i].at = "start"
    /\ mu = 0
    /\ readers' = readers \cup {i}
    /\ pc' = [pc EXCEPT ![i] = [at |-> "get", key |-> key, ttl |-> 0]]
    /\ snap' = Cur
    /\ UNCHANGED <<data, lru, cfgvars, janvars, stats, now, hist, got, mu, sw, ret>>

FSetLock(i, key, ttl) == Lock(i, "set", key, ttl)

FGetLock(i, key) == Lock(i, "get", key, 0)

FDeleteLock(i, key) == Lock(i, "delete", key, 0)

\* a step of goroutine i inside an operation
Step(i, at, st) ==
    /\ Becomes(st)
    /\ pc' = [pc EXCEPT ![i].at = at]
    /\ UNCHANGED <<cfgvars, janvars, now, hist, mu, got, finevars>>

\* Set: the found branch, or c.lru.Remove of evictOldest, or PushFront
FSet(i) ==
    /\ pc[i].at = "set"
    /\ LET key == pc[i].key
           exp == IF pc[i].ttl > 0 THEN now + pc[i].ttl ELSE 0
           item == [key |-> key, value |-> i, expiration |-> exp]
       IN IF data[key] # NoElem
          THEN Step(i, "setUnlock", SetFound(Cur, key, i, pc[i].ttl))
          ELSE IF maxEntries > 0 /\ Len(lru) >= maxEntries /\ ListBack(Cur) # NoElem
          THEN Step(i, "setEvict", ListRemove(Cur, ListBack(Cur)))
          ELSE Step(i, "setStore", ListPushFront(Cur, item))

\* removeElement, delete(c.data, item.key), and c.stats.Evictions++
FSetEvict(i) ==
    /\ pc[i].at = "setEvict"
    /\ LET item == snap.lru[Len(snap.lru)]
       IN Step(i, "setPush", [Cur EXCEPT !.data[item.key] = NoElem,
                                          !.stats.Evictions = @ + 1])

\* c.lru.PushFront(item)
FSetPush(i) ==
    /\ pc[i].at = "setPush"
    /\ LET key == pc[i].key
           exp == IF pc[i].ttl > 0 THEN now + pc[i].ttl ELSE 0
           item == [key |-> key, value |-> i, expiration |-> exp]
       IN Step(i, "setStore", ListPushFront(Cur, item))

\* c.data[key] = elem
FSetStore(i) ==
    /\ pc[i].at = "setStore"
    /\ Step(i, "setUnlock", [Cur EXCEPT !.data[pc[i].key] = 1])

\* Get: the miss, or c.lru.Remove of removeElement, or the hit
FGet(i) ==
    /\ pc[i].at = "get"
    /\ LET key == pc[i].key
           elem == data[key]
       IN IF elem = NoElem
          THEN /\ Becomes([Cur EXCEPT !.stats.Misses = @ + 1])
               /\ got' = [got EXCEPT ![i] = NoGet]
               /\ pc' = [pc EXCEPT ![i].at = "getUnlock"]
          ELSE IF Expired(lru[elem])
          THEN /\ Becomes(ListRemove(Cur, elem))
               /\ got' = got
               /\ pc' = [pc EXCEPT ![i].at = "getDelete"]
          ELSE /\ Becomes([ListMoveToFront(Cur, elem) EXCEPT !.stats.Hits = @ + 1])
               /\ got' = [got EXCEPT ![i] = [value |-> lru[elem].value, found |-> TRUE]]
               /\ pc' = [pc EXCEPT ![i].at = "getUnlock"]
    /\ UNCHANGED <<cfgvars, janvars, now, hist, mu, finevars>>

\* removeElement, delete(c.data, item.key), and c.stats.Misses++
FGetDelete(i) ==
    /\ pc[i].at = "getDelete"
    /\ Becomes([Cur EXCEPT !.data[pc[i].key] = NoElem, !.stats.Misses = @ + 1])
    /\ got' = [got EXCEPT ![i] = NoGet]
    /\ pc' = [pc EXCEPT ![i].at = "getUnlock"]
    /\ UNCHANGED <<cfgvars, janvars, now, hist, mu, finevars>>

\* delete(c.data, key)
FDelete(i) ==
    /\ pc[i].at = "delete"
    /\ Step(i, "deleteUnlock", DeleteResult(Cur, pc[i].key))

\* a return that leaves c.mu locked
FReturnLocked(i) ==
    /\ pc[i].at \in {"setUnlock", "getUnlock", "deleteUnlock"}
    /\ pc' = [pc EXCEPT ![i] = [at |-> "done", key |-> 1, ttl |-> 0]]
    /\ snap' = NoSnap
    /\ UNCHANGED <<data, lru, cfgvars, janvars, stats, now, hist, mu, got, readers, sw, ret>>

\* c.mu.Unlock(), deferred in Set and Get
FUnlock(i) ==
    /\ pc[i].at \in {"setUnlock", "getUnlock", "deleteUnlock"}
    /\ mu' = IF mu = i THEN 0 ELSE mu
    /\ readers' = readers \ {i}
    /\ pc' = [pc EXCEPT ![i] = [at |-> "done", key |-> 1, ttl |-> 0]]
    /\ snap' = NoSnap
    /\ UNCHANGED <<data, lru, cfgvars, janvars, stats, now, hist, got, sw, ret>>

\* a Stats that reads c.stats without taking the read lock
FStatsNoLock(i) ==
    /\ pc[i].at = "start"
    /\ pc' = [pc EXCEPT ![i].at = "stats"]
    /\ ret' = [ret EXCEPT ![i] = stats]
    /\ UNCHANGED <<data, lru, cfgvars, janvars, stats, now, hist, mu, got, readers, snap, sw>>

\* Stats: c.mu.RLock()
FStatsRLock(i) ==
    /\ pc[i].at = "start"
    /\ mu = 0
    /\ readers' = readers \cup {i}
    /\ pc' = [pc EXCEPT ![i].at = "stats"]
    /\ ret' = [ret EXCEPT ![i] = stats]
    /\ UNCHANGED <<data, lru, cfgvars, janvars, stats, now, hist, mu, got, snap, sw>>

\* Stats: return c.stats, and the deferred RUnlock
FStatsReturn(i) ==
    /\ pc[i].at = "stats"
    /\ readers' = readers \ {i}
    /\ pc' = [pc EXCEPT ![i].at = "done"]
    /\ ret' = [ret EXCEPT ![i] = stats]
    /\ UNCHANGED <<data, lru, cfgvars, janvars, stats, now, hist, mu, got, snap, sw>>

\* a sweep that starts without taking c.mu
JSweepNoLock ==
    /\ janitor = "running"
    /\ sw.at = "idle"
    /\ sw' = [at |-> "loop", elem |-> ListBack(Cur), key |-> 1]
    /\ snap' = Cur
    /\ UNCHANGED <<data, lru, cfgvars, janvars, stats, now, hist, mu, pc, got, readers, ret>>

\* case <-ticker.C: deleteExpired locks c.mu and takes c.lru.Back()
JSweepLock ==
    /\ janitor = "running"
    /\ sw.at = "idle"
    /\ mu = 0
    /\ readers = {}
    /\ mu' = Janitor
    /\ sw' = [at |-> "loop", elem |-> ListBack(Cur), key |-> 1]
    /\ snap' = Cur
    /\ UNCHANGED <<data, lru, cfgvars, janvars, stats, now, hist, pc, got, readers, ret>>

\* one turn of the loop: prev, the test of the expiration, c.lru.Remove
JSweepStep ==
    /\ sw.at = "loop"
    /\ sw.elem # NoElem
    /\ LET prev == sw.elem - 1
           item == lru[sw.elem]
       IN IF Expired(item)
          THEN /\ Becomes(ListRemove(Cur, sw.elem))
               /\ sw' = [at |-> "unlinked", elem |-> prev, key |-> item.key]
          ELSE /\ Becomes(Cur)
               /\ sw' = [sw EXCEPT !.elem = prev]
    /\ UNCHANGED <<cfgvars, janvars, now, hist, mu, pc, got, readers, snap, ret>>

\* removeElement, delete(c.data, item.key)
JSweepDelete ==
    /\ sw.at = "unlinked"
    /\ Becomes([Cur EXCEPT !.data[sw.key] = NoElem])
    /\ sw' = [at |-> "loop", elem |-> sw.elem, key |-> 1]
    /\ UNCHANGED <<cfgvars, janvars, now, hist, mu, pc, got, readers, snap, ret>>

\* elem == nil: the loop ends, the deferred Unlock
JSweepUnlock ==
    /\ sw.at = "loop"
    /\ sw.elem = NoElem
    /\ mu' = 0
    /\ sw' = Idle
    /\ snap' = NoSnap
    /\ UNCHANGED <<data, lru, cfgvars, janvars, stats, now, hist, pc, got, readers, ret>>

\* time passes
Tick ==
    /\ ~panicked
    /\ now < MaxTime
    /\ now' = now + 1
    /\ UNCHANGED <<data, lru, cfgvars, janvars, stats, hist, convars>>

\* time passes between two critical sections
TickUnlocked == mu = 0 /\ Tick

Next ==
    \/ \E k \in Keys, v \in Values, ttl \in TTLs : Set(k, v, ttl)
    \/ \E k \in Keys : Get(k)
    \/ \E k \in Keys : Delete(k)
    \/ JanitorTick
    \/ Tick

NextLife ==
    \/ Next
    \/ JanitorStop
    \/ Stop

\* entries that never expire, written, read and deleted
NextLRU ==
    \/ \E k \in Keys : Set(k, 1, 0)
    \/ \E k \in Keys : Get(k)
    \/ \E k \in Keys : Delete(k)

\* the goroutines of TestConcurrentAccess, and the clock
NextConc ==
    \/ \E i \in Callers : GoSetLock(i)
    \/ \E i \in Callers : GoSet(i)
    \/ \E i \in Callers : GoGetLock(i)
    \/ \E i \in Callers : GoGet(i)
    \/ Tick

\* one value, written with and without a ttl, and the sweeps
NextSweep ==
    \/ \E k \in Keys, ttl \in TTLs : Set(k, 1, ttl)
    \/ \E k \in Keys : Get(k)
    \/ \E k \in Keys : Delete(k)
    \/ JanitorTick
    \/ Tick

\* what goroutine i does next
CallerLock(i) ==
    \/ \E k \in Keys, ttl \in TTLs : FSetLock(i, k, ttl)
    \/ \E k \in Keys : FGetLock(i, k)
    \/ \E k \in Keys : FDeleteLock(i, k)
    \/ FStatsRLock(i)

CallerStep(i) ==
    \/ FSet(i)
    \/ FSetEvict(i)
    \/ FSetPush(i)
    \/ FSetStore(i)
    \/ FGet(i)
    \/ FGetDelete(i)
    \/ FDelete(i)
    \/ FUnlock(i)
    \/ FStatsReturn(i)

SweepStep ==
    \/ JSweepStep
    \/ JSweepDelete
    \/ JSweepUnlock

NextFine ==
    \/ \E k \in Keys, ttl \in TTLs : Setup(k, ttl)
    \/ \E k \in Keys : SetupDelete(k)
    \/ \E i \in Callers : CallerLock(i)
    \/ \E i \in Callers : CallerStep(i)
    \/ JSweepLock
    \/ SweepStep
    \/ TickUnlocked

Spec == Init /\ [][Next]_vars

\* the callers and the janitor on a new cache
NextLive ==
    \/ \E i \in Callers : CallerLock(i)
    \/ \E i \in Callers : CallerStep(i)
    \/ JSweepLock
    \/ SweepStep
    \/ TickUnlocked

SpecFine == InitFine /\ [][NextFine]_vars

\* the one call of Stop, at any moment of a sweep or between two sweeps
StopFirst == stopChan = "open" /\ Stop

\* one caller, the sweeps step by step, Stop and the janitor's exit
NextStop ==
    \/ \E k \in Keys, ttl \in TTLs : Setup(k, ttl)
    \/ \E k \in Keys : SetupDelete(k)
    \/ CallerLock(1)
    \/ CallerStep(1)
    \/ JSweepLock
    \/ SweepStep
    \/ TickUnlocked
    \/ StopFirst
    \/ JanitorStop

\* the goroutine that sweeps takes its next step
SpecStop == InitFine /\ [][NextStop]_vars /\ WF_vars(SweepStep)

\* a fair lock: a goroutine that keeps finding c.mu free gets it; a goroutine
\* in an operation takes its next step
SpecLive ==
    /\ InitLive
    /\ [][NextLive]_vars
    /\ \A i \in Callers : SF_vars(CallerLock(i)) /\ WF_vars(CallerStep(i))
    /\ WF_vars(SweepStep)

SpecUnbounded == InitUnbounded /\ [][Next]_vars

\* Set, Get and the sweeps: an execution without Delete
NextNoDelete ==
    \/ \E k \in Keys, v \in Values, ttl \in TTLs : Set(k, v, ttl)
    \/ \E k \in Keys : Get(k)
    \/ JanitorTick
    \/ Tick

SpecNoDelete == Init /\ [][NextNoDelete]_vars

SpecConc == InitConc /\ [][NextConc]_vars

SpecLRU == InitLRU /\ [][NextLRU]_vars

SpecLife == InitLife /\ [][NextLife]_vars

\* the janitor's select takes the closed stopChan in the end
SpecLifeFair == SpecLife /\ WF_vars(JanitorStop)

\* the ticker keeps firing, the lock is fair and time passes
SpecSweep == InitSweep /\ [][NextSweep]_vars /\ WF_vars(JanitorTick) /\ WF_vars(Tick)

\* ------------------------------------------------------------------ claims
IndexAfter == {k \in Keys : data'[k] # NoElem}

\* C1: a key is in the index exactly when an element of the recency list
\* carries it (no dangling handle, no orphan element).
C1_IndexIffListed == \A k \in Keys : k \in Index <=> k \in ListKeys

\* C2: no key is carried by two elements of the recency list, and the list is
\* as long as the index is large.
C2_OnePositionPerKey ==
    /\ \A i, j \in 1..Len(lru) : lru[i].key = lru[j].key => i = j
    /\ Len(lru) = Cardinality(Index)

\* C3: a Get that returns found = true reads an entry that never expires or
\* whose expiration instant is not earlier than the current instant.
C3_NoExpiredValueReturned ==
    \A k \in Keys :
        GetResult(Cur, k).found =>
            \/ lru[data[k]].expiration = 0
            \/ lru[data[k]].expiration >= now

\* a Get has hit the entry at the front, at the very instant of its expiration,
\* while an expired entry is still in the index
C3_HitAtDeadline ==
    /\ stats.Hits > 0
    /\ now > 0
    /\ Len(lru) > 0
    /\ lru[1].expiration = now
    /\ data[lru[1].key] = 1
    /\ GetResult(Cur, lru[1].key).found
    /\ \E k \in Index : Expired(lru[data[k]])

\* C4: when the most recent write of k is Set(k, v, ttl) with ttl > 0 at
\* instant t, not followed by a Delete(k) or a capacity eviction of k, Get(k)
\* returns (v, true) up to and including t + ttl and not-found after it.
C4_TTLCorrect ==
    \A k \in Keys :
        (last[k].kind = "set" /\ last[k].deadline > 0) =>
            LET r == GetResult(Cur, k) IN
            IF now <= last[k].deadline
            THEN r.found /\ r.value = last[k].value
            ELSE ~r.found

\* C5: when the most recent write of k is Set(k, v, ttl) with ttl <= 0, not
\* followed by a Delete(k) or a capacity eviction of k, Get(k) returns found
\* however much time has passed; stated for the Set of a key that was absent
\* from the index or present without an expiration.
C5_NoExpiryPersists ==
    \A k \in Keys :
        (last[k].kind = "set" /\ last[k].deadline = 0) => GetResult(Cur, k).found

\* C6: the key of an entry that never expires leaves the index only by a
\* Delete of that key or by a capacity eviction.
C6_NeverExpiresStays ==
    [][\A k \in Keys :
         (k \in Index /\ lru[data[k]].expiration = 0 /\ k \notin IndexAfter) =>
             (Delete(k) \/ k \in Evicted)]_vars

C8_StrictLRUVictim ==
    [][stats'.Evictions # stats.Evictions =>
         \A k \in Index \ IndexAfter : used # <<>> /\ k = used[Len(used)]]_vars

\* C9: with maxEntries = N > 0 the index holds at most N keys and the recency
\* list at most N elements.
C9_CapacityBound ==
    maxEntries > 0 => Cardinality(Index) <= maxEntries /\ Len(lru) <= maxEntries

\* a full cache after an eviction
C9_FullAfterEviction ==
    /\ maxEntries > 0
    /\ Len(lru) = maxEntries
    /\ Cardinality(Index) = maxEntries
    /\ stats.Evictions > 0

\* C10: after Delete(k) of a present key and no Set(k) since, Get(k) returns
\* not-found and counts one miss and no hit.
C10_DeletedNotFound ==
    \A k \in Keys :
        last[k].kind = "deleted" =>
            LET r == GetResult(Cur, k) IN
            /\ ~r.found
            /\ r.st.stats.Misses = stats.Misses + 1
            /\ r.st.stats.Hits = stats.Hits

\* a present key was deleted, its element is still in the list, and a Get has
\* missed
C10_MissAfterDelete ==
    \E k \in Keys :
        /\ last[k].kind = "deleted"
        /\ k \in ListKeys
        /\ stats.Misses > 0
        /\ stats.Hits = 0

\* C11: Delete(k) of a key of the index removes, in one step, the key from the
\* index and its element from the recency list: the index and the list are one
\* shorter and the other elements keep their order.
C11_DeleteUnlinks ==
    [][\A k \in Keys :
         (k \in Index /\ Delete(k)) =>
             /\ k \notin IndexAfter
             /\ Cardinality(IndexAfter) = Cardinality(Index) - 1
             /\ Len(lru') = Len(lru) - 1
             /\ lru' = DropAt(lru, data[k])]_vars

\* C12: Delete(k) of a key that is not in the index leaves the index, the
\* recency list and the three counters as they are; Delete(k) twice leaves
\* what Delete(k) once leaves.
C12_DeleteAbsentNoOp ==
    /\ \A k \in Keys \ Index : DeleteResult(Cur, k) = Cur
    /\ \A k \in Keys :
          DeleteResult(DeleteResult(Cur, k), k) = DeleteResult(Cur, k)

\* Delete(k) of a present key and then Delete(k) again, on a list that is not
\* empty: nothing else takes k from the index at instant 0 without an eviction
\* and leaves no write of k behind
C12_DeletedTwice ==
    /\ now = 0
    /\ stats.Evictions = 0
    /\ \E k \in ListKeys : k \notin Index /\ last[k].kind = "none"

\* the goroutines whose Get has returned
Returned == {i \in Callers : pc[i].at = "done"}

\* C13: under every interleaving of the callers, the hits counter is the
\* number of completed Get calls that returned found = true, the misses counter
\* the number that returned found = false (a lazy expiration included), and
\* their sum the number of completed Get calls.
C13_StatsCountGets ==
    /\ stats.Hits = Cardinality({i \in Returned : got[i].found})
    /\ stats.Misses = Cardinality({i \in Returned : ~got[i].found})
    /\ stats.Hits + stats.Misses = Cardinality(Returned)

\* every Get has returned, one found its key and one did not: without
\* capacity nothing but the expiration takes a key that was set from the index
C13_HitAndExpiredMiss ==
    /\ Returned = Callers
    /\ maxEntries = 0
    /\ stats.Hits >= 1
    /\ stats.Misses >= 1

\* C14 as stated: in every reachable state, for every key, value and ttl,
\* Set(k, v, ttl) followed at once by Get(k) returns (v, true).
C14_ReadYourWrite ==
    \A k \in Keys, v \in Values, ttl \in TTLs :
        LET r == GetResult(SetResult(Cur, k, v, ttl), k)
        IN r.found /\ r.value = v

\* C14, amended: Set(k, v, ttl) followed at once by Get(k) returns (v, true)
\* when ttl > 0, or k is not in the index, or k's entry has not expired; when
\* ttl <= 0 and k's entry is in the index and has expired, the Set keeps the
\* passed expiration and the Get returns not-found.
C14_ReadYourWriteUnexpired ==
    \A k \in Keys, v \in Values, ttl \in TTLs :
        LET r == GetResult(SetResult(Cur, k, v, ttl), k)
        IN IF ttl > 0 \/ k \notin Index \/ ~Expired(lru[data[k]])
           THEN r.found /\ r.value = v
           ELSE ~r.found

\* an expired entry is still in the index: a Set with a ttl is read back, a
\* Set without one is not
C14_SetOverExpired ==
    \E k \in Index :
        /\ Expired(lru[data[k]])
        /\ GetResult(SetResult(Cur, k, 1, 1), k).found
        /\ ~GetResult(SetResult(Cur, k, 1, 0), k).found

\* C15: a Get(k) that returns found = true returns the value of the most
\* recent Set(k, ...), never the value of an older Set(k) or of another key.
C15_LastWriteWins ==
    \A k \in Keys :
        LET r == GetResult(Cur, k)
        IN r.found => last[k].kind = "set" /\ r.value = last[k].value

\* a key set, set again while present, and hit by a Get
C15_HitAfterOverwrite ==
    \E k \in Keys :
        /\ last[k].kind = "set"
        /\ last[k].deadline = Kept
        /\ stats.Hits > 0
        /\ data[k] = 1
        /\ GetResult(Cur, k).found

\* C16: the first Stop of an instance closes the stop channel without a
\* fault, the second ends in a panic, whether the janitor was started or not.
C16_StopOneShot ==
    /\ stops = 0 => stopChan = "open" /\ ~panicked
    /\ stops = 1 => stopChan = "closed" /\ ~panicked
    /\ stops >= 2 => panicked

\* the second Stop of a cache without janitor has panicked
C16_SecondStopPanicked ==
    /\ interval <= 0
    /\ stops = 2
    /\ panicked

\* an element with key k and expiration e is in the recency list
Listed(k, e) == \E i \in 1..Len(lru) : lru[i].key = k /\ lru[i].expiration = e

\* C17: with a running janitor, ticks that keep firing and time that passes,
\* an entry of the index whose expiration instant e comes is in the end out of
\* the index and out of the recency list (or written again with another
\* expiration), with no Get needed; a sweep changes no counter.
C17_ExpiredEventuallySwept ==
    /\ \A k \in Keys, e \in 1..(MaxTime - 1) :
          (k \in Index /\ lru[data[k]].expiration = e)
              ~> (~Listed(k, e) /\ (k \in Index => lru[data[k]].expiration # e))
    /\ [][JanitorTick => stats' = stats]_vars

\* a key set with a ttl and set again without one keeps its expiration; it is
\* out of the index and of the list with no Get, no eviction and no Delete of
\* it: a sweep has removed it
C17_SweptUnread ==
    \E k \in Keys :
        /\ last[k].kind = "set"
        /\ last[k].deadline = Kept
        /\ k \notin Index
        /\ k \notin ListKeys
        /\ stats = [Hits |-> 0, Misses |-> 0, Evictions |-> 0]

\* C18: once Stop is called on a cache whose janitor runs, the janitor exits
\* in the end; it has stopped its ticker when it has exited; it exits only
\* from Running and on the closed stop channel, never runs again, and no sweep
\* runs once it has exited.
C18_JanitorShutdown ==
    /\ (janitor = "running" /\ stopChan = "closed") ~> (janitor = "exited")
    /\ [](janitor = "exited" /\ ~panicked => ticker = "stopped")
    /\ [][/\ janitor = "exited" => janitor' = "exited" /\ ~JanitorTick
          /\ (janitor # "exited" /\ janitor' = "exited")
                 => janitor = "running" /\ stopChan = "closed"]_vars

\* the janitor has exited and an expired entry stays in the index
C18_ExitedUnswept ==
    /\ janitor = "exited"
    /\ ~panicked
    /\ ticker = "stopped"
    /\ \E k \in Index : Expired(lru[data[k]])

\* C19: with an interval <= 0 no janitor is started and none ever runs, also
\* after Stop: no sweep happens and a key leaves the index only by a Get of it,
\* a Delete of it or a capacity eviction; with an interval > 0 the janitor is
\* started at construction and runs until Stop.
C19_DisabledIsTerminal ==
    /\ [](interval <= 0 => janitor = "disabled" /\ ticker = "none")
    /\ []((interval > 0 /\ stopChan = "open") => janitor = "running" /\ ticker = "active")
    /\ [][(interval <= 0 /\ ~panicked') =>
             /\ ~JanitorTick
             /\ \A k \in Index \ IndexAfter : Get(k) \/ Delete(k) \/ k \in Evicted]_vars

\* a cache without janitor, stopped, at the end of time, with an expired entry
\* still in the index
C19_StoppedNeverSwept ==
    /\ interval <= 0
    /\ janitor = "disabled"
    /\ stopChan = "closed"
    /\ ~panicked
    /\ now = MaxTime
    /\ \E k \in Index : Expired(lru[data[k]])

\* the goroutines all use one key and a ttl that does not elapse
SharedKey == \A i \in Callers : pc[i].key = pc[1].key /\ pc[i].ttl = LongTTL

\* the goroutines whose Set has returned
HasSet == {i \in Callers : pc[i].at \in {"afterSet", "inGet", "done"}}

\* C20: when the callers each Set and then Get one shared key with a ttl that
\* does not elapse, under every interleaving no caller is stuck before its
\* Get returns, every Get returns found = true and a value one of the Sets
\* wrote, and at the end the index has one key and the recency list one
\* element.
C20_ConcurrentSetGet ==
    SharedKey =>
        /\ \A i \in Returned : got[i].found /\ got[i].value \in HasSet
        /\ Returned # Callers =>
              \E i \in Callers :
                  \/ pc[i].at \in {"start", "afterSet"} /\ mu = 0
                  \/ pc[i].at \in {"inSet", "inGet"} /\ mu = i
        /\ Returned = Callers =>
              /\ Index = {pc[1].key}
              /\ Len(lru) = 1
              /\ lru[1].key = pc[1].key

\* every caller has returned and the first one has read the value of another
C20_ReadOthersWrite ==
    /\ SharedKey
    /\ Returned = Callers
    /\ got[1].found
    /\ got[1].value # 1
    /\ Len(lru) = 1

\* goroutine i is inside Set, Get or Delete, after Lock and before Unlock
Writing(i) ==
    pc[i].at \in {"set", "setEvict", "setPush", "setStore", "setUnlock",
                  "get", "getDelete", "getUnlock", "delete", "deleteUnlock"}

\* goroutine i is inside Stats
Reading(i) == pc[i].at = "stats"

\* the janitor is inside deleteExpired
Sweeping == sw.at # "idle"

\* C21: an operation inside its critical section is alone there (a sweep
\* included; only Stats calls overlap, and then nothing changes), so no
\* operation sees the list updated and the index not yet; and when an
\* operation releases the lock, the index, the list and the counters are what
\* the whole operation, applied at once to the state it locked, makes of them.
C21_Linearizable ==
    /\ [](/\ \A i, j \in Callers : (Writing(i) /\ (Writing(j) \/ Reading(j))) => i = j
          /\ \A i \in Callers : Writing(i) => mu = i /\ ~Sweeping /\ readers = {}
          /\ Sweeping => /\ mu = Janitor
                         /\ readers = {}
                         /\ \A j \in Callers : ~Writing(j) /\ ~Reading(j)
          /\ \A i \in Callers :
                /\ pc[i].at = "setUnlock" =>
                      Cur = SetResult(snap, pc[i].key, i, pc[i].ttl)
                /\ pc[i].at = "getUnlock" =>
                      LET r == GetResult(snap, pc[i].key)
                      IN Cur = r.st /\ got[i] = [value |-> r.value, found |-> r.found]
                /\ pc[i].at = "deleteUnlock" => Cur = DeleteResult(snap, pc[i].key)
          /\ (sw.at = "loop" /\ sw.elem = NoElem) => Cur = deleteExpired(snap))
    /\ [][(\E j \in Callers : Reading(j)) => UNCHANGED <<data, lru, stats>>]_vars

\* a Set has pushed its element after an eviction and not yet stored it in the
\* index, while the other goroutine has returned from its call
C21_MidSetAlone ==
    \E i, j \in Callers :
        /\ i # j
        /\ pc[j].at = "done"
        /\ pc[i].at = "setStore"
        /\ data[pc[i].key] = NoElem
        /\ lru[1].key = pc[i].key
        /\ stats.Evictions >= 1

IndexOf(st) == {k \in Keys : st.data[k] # NoElem}

\* C23: without a positive maxEntries the evictions counter is 0 in every
\* reachable state, and a Set of a key absent from the index evicts nothing
\* and makes the index one key larger.
C23_UnboundedNeverEvicts ==
    maxEntries <= 0 =>
        /\ stats.Evictions = 0
        /\ \A k \in Keys \ Index, v \in Values, ttl \in TTLs :
              LET st1 == SetResult(Cur, k, v, ttl)
              IN /\ Cardinality(IndexOf(st1)) = Cardinality(Index) + 1
                 /\ st1.stats.Evictions = 0

\* a negative maxEntries, and as many keys set as the bound on the list allows
C23_UnboundedFull ==
    /\ maxEntries < 0
    /\ Cardinality(Index) = MaxNodes
    /\ Len(lru) = MaxNodes
    /\ \A k \in Index : last[k].kind = "set"

\* C24: Set(k, v, ttl) on a key in the index stores v; with ttl > 0 the
\* expiration becomes now + ttl, with ttl <= 0 it stays what it was, a passed
\* expiration included.
C24_TTLOnUpdate ==
    \A k \in Index, v \in Values, ttl \in TTLs :
        LET old == lru[data[k]]
            st1 == SetResult(Cur, k, v, ttl)
            e1 == st1.data[k]
        IN /\ e1 \in 1..Len(st1.lru)
           /\ st1.lru[e1].key = k
           /\ st1.lru[e1].value = v
           /\ st1.lru[e1].expiration = IF ttl > 0 THEN now + ttl ELSE old.expiration

\* a key set again without ttl holds its new value at the head of the list
\* with the expiration of the first Set, which has passed
C24_KeptPassedExpiration ==
    \E k \in Index :
        /\ last[k].deadline = Kept
        /\ data[k] = 1
        /\ lru[1].value = last[k].value
        /\ Expired(lru[1])

\* C25: Set on a key in the index leaves the keys of the index, the length of
\* the list and the counters as they are, at capacity too; k's element goes to
\* the head, the other elements keep their content and their order.
C25_UpdateNeverEvicts ==
    \A k \in Index, v \in Values, ttl \in TTLs :
        LET st1 == SetResult(Cur, k, v, ttl)
        IN /\ IndexOf(st1) = Index
           /\ Len(st1.lru) = Len(lru)
           /\ st1.stats = stats
           /\ st1.data[k] = 1
           /\ st1.lru[1].key = k
           /\ DropAt(st1.lru, 1) = DropAt(lru, data[k])
           /\ \A j \in Index \ {k} : st1.lru[st1.data[j]] = lru[data[j]]

\* a cache at capacity where the key at the back was set again while present:
\* it is at the head, and nothing was evicted
C25_UpdatedAtCapacity ==
    /\ maxEntries = MaxNodes
    /\ Len(lru) = maxEntries
    /\ Cardinality(Index) = maxEntries
    /\ stats.Evictions = 0
    /\ last[lru[1].key].deadline = Kept
    /\ last[lru[2].key].kind = "set"
    /\ last[lru[2].key].deadline = 0

\* C26: the evictions counter changes only in a Set of a key that is not in
\* the index, on a cache with a positive maxEntries; a Get (hit, miss or lazy
\* expiration), a Delete, a sweep, a Stop that returns and the janitor's exit
\* leave it as it is.
C26_EvictionsOnlyInSet ==
    /\ [][(stats'.Evictions # stats.Evictions /\ ~panicked') =>
             /\ maxEntries > 0
             /\ \E k \in Keys \ Index, v \in Values, ttl \in TTLs : Set(k, v, ttl)]_vars
    /\ [][(\/ \E k \in Keys : Get(k)
           \/ \E k \in Keys : Delete(k)
           \/ JanitorTick
           \/ JanitorStop
           \/ Stop /\ ~panicked') => stats'.Evictions = stats.Evictions]_vars

\* one eviction counted, after which a key was deleted, a Get missed and Stop
\* was called
C26_OneEvictionCounted ==
    /\ stats.Evictions = 1
    /\ stats.Misses = 1
    /\ \E k \in Keys : last[k] = Deleted
    /\ stopChan = "closed"
    /\ ~panicked

\* C27: every change of the evictions counter is an increment by one, made
\* when the index holds maxEntries keys, by a step that takes exactly one key
\* out of the index.
C27_EvictionRemovesOneKey ==
    [][stats'.Evictions # stats.Evictions =>
          /\ stats'.Evictions = stats.Evictions + 1
          /\ Cardinality(Index) = maxEntries
          /\ Cardinality(Index \ IndexAfter) = 1]_vars

\* C28: an entry that has expired and is still in the index counts for the
\* capacity, and a Set of a key that is not in the index, at capacity, takes
\* the element at the back of the list out, expired or not, and leaves every
\* other element, expired or not, in its place behind the new one.
C28_EvictionIgnoresTTL ==
    /\ Cardinality(Index) <= Len(lru)
    /\ \A k \in Keys \ Index, v \in Values, ttl \in TTLs :
          (maxEntries > 0 /\ (Cardinality(Index) = maxEntries \/ Len(lru) >= maxEntries)) =>
              LET st1 == SetResult(Cur, k, v, ttl)
                  back == lru[Len(lru)]
              IN /\ SubSeq(st1.lru, 2, Len(st1.lru)) = SubSeq(lru, 1, Len(lru) - 1)
                 /\ st1.lru[1].key = k
                 /\ IndexOf(st1) = (Index \ {back.key}) \cup {k}
                 /\ st1.stats.Evictions = stats.Evictions + 1

\* at capacity two, the back never expires and the front has expired: a Set of
\* a third key takes the key at the back out and leaves the expired one in
C28_UnexpiredTailEvicted ==
    /\ maxEntries = 2
    /\ Len(lru) = 2
    /\ Index = {lru[1].key, lru[2].key}
    /\ lru[1].key # lru[2].key
    /\ lru[2].expiration = 0
    /\ Expired(lru[1])
    /\ \E k \in Keys \ Index :
          LET st1 == SetResult(Cur, k, 1, 0)
          IN /\ IndexOf(st1) = {k, lru[1].key}
             /\ Expired(st1.lru[2])
             /\ st1.stats.Evictions = stats.Evictions + 1

\* C29: a Get of a key that is in the index with a passed expiration returns
\* not-found, takes the key out of the index and out of the list, adds one to
\* misses and nothing to hits and evictions, and leaves every other element as
\* it is and in its order; a Get of a key that is not in the index changes
\* misses only.
C29_LazyExpiration ==
    \A k \in Keys :
        LET r == GetResult(Cur, k)
            st1 == r.st
        IN IF k \notin Index
           THEN ~r.found /\ st1 = [Cur EXCEPT !.stats.Misses = @ + 1]
           ELSE Expired(lru[data[k]]) =>
                   /\ ~r.found
                   /\ st1.stats = [stats EXCEPT !.Misses = @ + 1]
                   /\ IndexOf(st1) = Index \ {k}
                   /\ st1.lru = DropAt(lru, data[k])
                   /\ \A j \in Index \ {k} : st1.lru[st1.data[j]] = lru[data[j]]
                   /\ \A i \in 1..Len(st1.lru) : st1.lru[i].key # k

\* C30: after Set(k, ...) and after a Get(k) that returns found, k's element
\* is at the head of the list and the other elements keep their order (less
\* the one evicted from the back); a found Get leaves every value, every
\* expiration and the keys of the index as they are.
C30_RecencyRefresh ==
    /\ \A k \in Keys, v \in Values, ttl \in TTLs :
          LET st1 == SetResult(Cur, k, v, ttl)
          IN /\ st1.data[k] = 1
             /\ st1.lru[1].key = k
             /\ IF k \in Index
                THEN Tail(st1.lru) = DropAt(lru, data[k])
                ELSE IF st1.stats.Evictions # stats.Evictions
                THEN Tail(st1.lru) = SubSeq(lru, 1, Len(lru) - 1)
                ELSE Tail(st1.lru) = lru
    /\ \A k \in Keys :
          LET r == GetResult(Cur, k)
          IN r.found =>
                /\ r.st.data[k] = 1
                /\ r.st.lru = <<lru[data[k]]>> \o DropAt(lru, data[k])
                /\ IndexOf(r.st) = Index
                /\ \A j \in Index : r.st.lru[r.st.data[j]] = lru[data[j]]

\* two keys set, then the first one read: it is at the head again, the second
\* behind it
C30_ReadBackToHead ==
    /\ scen.on
    /\ scen.read
    /\ Len(scen.keys) = 2
    /\ Len(lru) = 2
    /\ lru[1].key = scen.keys[1]
    /\ lru[2].key = scen.keys[2]
    /\ data[scen.keys[1]] = 1
    /\ stats.Hits = 1

\* C31: a sweep, at one instant of the clock, takes every key that is in the
\* index with a passed expiration out of the index and out of the list, leaves
\* every other key of the index there with its value, its expiration and its
\* place relative to the others, and changes no counter.
C31_SweepRemovesExpired ==
    LET st1 == deleteExpired(Cur)
    IN /\ st1.stats = stats
       /\ st1.lru = SelectSeq(lru, LAMBDA item : ~Expired(item))
       /\ \A k \in Index :
             IF Expired(lru[data[k]])
             THEN /\ st1.data[k] = NoElem
                  /\ \A i \in 1..Len(st1.lru) : st1.lru[i].key # k
             ELSE /\ st1.data[k] \in 1..Len(st1.lru)
                  /\ st1.lru[st1.data[k]] = lru[data[k]]
       /\ \A j, k \in Index :
             (~Expired(lru[data[j]]) /\ ~Expired(lru[data[k]]) /\ data[j] < data[k]) =>
                 st1.data[j] < st1.data[k]

\* C32: the janitor exits only between two sweeps and never with the lock: a
\* sweep in progress when Stop closes stopChan goes on under the lock, ends
\* only at the front of the list, having done all a sweep does, and releases
\* the lock.
C32_StopBetweenSweeps ==
    /\ [](/\ janitor = "exited" => ~Sweeping /\ mu # Janitor
          /\ Sweeping => mu = Janitor /\ janitor = "running"
          /\ (sw.at = "loop" /\ sw.elem = NoElem) => Cur = deleteExpired(snap))
    /\ [][(Sweeping /\ ~Sweeping') =>
             /\ sw.at = "loop"
             /\ sw.elem = NoElem
             /\ mu' = 0
             /\ janitor' = "running"]_vars
    /\ (Sweeping /\ stopChan = "closed") ~> ~Sweeping

\* stopChan is closed and the janitor is in the middle of a sweep: it has
\* unlinked the element at the back and has the one before it still to visit
C32_StoppedMidSweep ==
    /\ stopChan = "closed"
    /\ janitor = "running"
    /\ sw.at = "unlinked"
    /\ sw.elem >= 1
    /\ mu = Janitor

\* C33: at most one of Set, Get, Delete and the sweep is between its Lock and
\* its Unlock, and none while a Stats call holds the read lock (several Stats
\* calls may hold it together); whoever is inside holds the lock, and the
\* index, the list and the counters change only in a step of the holder of
\* the write lock (or before the goroutines start).
C33_MutualExclusion ==
    /\ [](/\ Cardinality({i \in Callers : Writing(i)}) + (IF Sweeping THEN 1 ELSE 0) <= 1
          /\ readers # {} => mu = 0 /\ ~Sweeping /\ \A i \in Callers : ~Writing(i)
          /\ \A i \in Callers : (Writing(i) <=> mu = i) /\ (Reading(i) <=> i \in readers)
          /\ Sweeping <=> mu = Janitor)
    /\ [][Cur' # Cur =>
             \/ mu # 0 /\ mu' = mu /\ readers = {}
             \/ \E k \in Keys, ttl \in TTLs : Setup(k, ttl)
             \/ \E k \in Keys : SetupDelete(k)]_vars

\* every caller is in Stats at the same time, the write lock is free
C33_StatsTogether ==
    /\ readers = Callers
    /\ \A i \in Callers : Reading(i)
    /\ mu = 0
    /\ Len(lru) = MaxNodes

\* C34: no step takes a counter down, and a step adds one to at most one of
\* hits, misses and evictions and nothing to the others; the counters do not
\* move while a Stats call holds the read lock, so the value it returns is the
\* value of c.stats when it took the lock, and taking and releasing the read
\* lock changes neither the index nor the list nor the counters.
C34_CountersMonotone ==
    /\ [][LET dh == stats'.Hits - stats.Hits
              dm == stats'.Misses - stats.Misses
              de == stats'.Evictions - stats.Evictions
          IN {dh, dm, de} \subseteq {0, 1} /\ dh + dm + de <= 1]_vars
    /\ [](\A i \in Callers : Reading(i) => ret[i] = stats)
    /\ [][\A i \in Callers :
             /\ (Reading(i) /\ pc'[i].at = "done") =>
                   ret'[i] = stats /\ ret'[i] = ret[i] /\ Cur' = Cur
             /\ (pc[i].at = "start" /\ pc'[i].at = "stats") => Cur' = Cur]_vars

\* a Stats call has returned one eviction and one Get, after the other
\* goroutine's Get
C34_SnapshotAfterGet ==
    \E i, j \in Callers :
        /\ i # j
        /\ pc[i].at = "done"
        /\ pc[j].at = "done"
        /\ ret[i] = stats
        /\ ret[j] = NoStats
        /\ stats.Hits + stats.Misses = 1
        /\ stats.Evictions = 1

\* C35: between two operations, whatever Deletes there were, the element that
\* the index holds for a key is linked in the list and stores that key, two
\* keys never hold the same element, and the index has at most as many keys
\* as the list has elements.
C35_NoDanglingHandle ==
    /\ \A k \in Index : data[k] \in 1..Len(lru) /\ lru[data[k]].key = k
    /\ \A j, k \in Index : j # k => data[j] # data[k]
    /\ Cardinality(Index) <= Len(lru)

\* a key deleted and set again: its new element is at the head, the element
\* the Delete left linked is behind it, and another key has been deleted
C35_SetAgainAfterDelete ==
    /\ Len(lru) = 2
    /\ lru[1].key = lru[2].key
    /\ data[lru[1].key] = 1
    /\ Index = {lru[1].key}
    /\ \E k \in Keys \ Index : last[k] = Deleted

\* C36: while Delete is not called, after any Sets, Gets (lazy expiration
\* included), evictions and sweeps the index and the list correspond one to
\* one: the element at each position stores a key that the index maps to that
\* position, and the list is as long as the index is large.
C36_OneToOneWithoutDelete ==
    /\ \A i \in 1..Len(lru) : data[lru[i].key] = i
    /\ \A k \in Index : data[k] \in 1..Len(lru) /\ lru[data[k]].key = k
    /\ Len(lru) = Cardinality(Index)

\* one key evicted for capacity, one Get that hit, and a key set twice whose
\* kept expiration passed: a sweep took it out; the rest still corresponds
C36_EvictedHitAndSwept ==
    /\ stats = [Hits |-> 1, Misses |-> 0, Evictions |-> 1]
    /\ Len(lru) >= 1
    /\ \E k \in Keys \ Index : last[k].kind = "set" /\ last[k].deadline = Kept

\* C37: a Stop that returns leaves the index, the list and the counters as
\* they are; afterwards, as on a cache whose janitor was never started, every
\* Set, Get and Delete can be called and does what the operation does (lazy
\* expiration and eviction included), and a janitor that has exited stays
\* exited and sweeps no more.
C37_UsableAfterStop ==
    /\ []((~panicked /\ (stopChan = "closed" \/ janitor = "disabled")) =>
             /\ \A k \in Keys, v \in Values, ttl \in TTLs :
                   SetResult(Cur, k, v, ttl).stats.Evictions <= MaxEvictions =>
                       ENABLED (Set(k, v, ttl) /\ Becomes(SetResult(Cur, k, v, ttl)))
             /\ \A k \in Keys :
                   stats.Hits + stats.Misses < MaxGets =>
                       ENABLED (Get(k) /\ Becomes(GetResult(Cur, k).st))
             /\ \A k \in Keys : ENABLED (Delete(k) /\ Becomes(DeleteResult(Cur, k)))
             /\ janitor = "exited" => ~ENABLED JanitorTick)
    /\ [][(Stop /\ ~panicked') => Cur' = Cur]_vars
    /\ [][janitor # "running" => janitor' = janitor]_vars

\* Stop was called once and the janitor has exited; a key that has expired is
\* still in the index: a Get of it misses and removes it, and a Set of another
\* key evicts it
C37_StoppedStillExpires ==
    /\ stops = 1
    /\ ~panicked
    /\ janitor = "exited"
    /\ \E k \in Index :
          /\ Expired(lru[data[k]])
          /\ ~GetResult(Cur, k).found
          /\ IndexOf(GetResult(Cur, k).st) = {}
          /\ \E j \in Keys \ Index :
                /\ SetResult(Cur, j, 1, 0).stats.Evictions = stats.Evictions + 1
                /\ IndexOf(SetResult(Cur, j, 1, 0)) = {j}

====
